---------------------------- MODULE Spec2Model ----------------------------
(***************************************************************************)
(* A model of comp.js (src/src/comp/index.ts): the Comp node tree, its     *)
(* serialisation to markup, mounting into the host document and the        *)
(* mutate-then-replace update protocol with listener re-attachment.        *)
(*                                                                         *)
(* Representation.                                                         *)
(*  - heap: the objects created so far, a sequence of records; an object   *)
(*    reference is its index, 0 is `undefined`.                            *)
(*  - a markup string is a sequence of pieces (strings); concatenating     *)
(*    markup is concatenating the sequences.  The host's HTML parser       *)
(*    (Parse) reads the pieces back into live elements.                    *)
(*  - dom: the live elements below the mount container, in document order, *)
(*    as a flat bracketed sequence of open / text / close tokens.          *)
(*  - rand: Math.random, a generator whose seed (stream) is fixed at start *)
(*    and whose position advances with every draw.                         *)
(*  - last: the outcome of the last public call (returned or threw).       *)
(***************************************************************************)
EXTENDS Integers, Sequences, FiniteSets, TLC

VARIABLES heap, dom, rand, last

vars == <<heap, dom, rand, last>>

---------------------------------------------------------------------------
(* Bounds of the model *)

\* objects the heap may hold
MaxNodes == 2
\* registrations an outside caller adds to one node
MaxRegs == 1
\* children an outside caller passes to, or appends to, one node
MaxChildren == 2

---------------------------------------------------------------------------
(* Values *)

\* the value `undefined` of a string-valued field
Undefined == "undefined"

\* enum TagRenderMode
normal == 0
selfClosing == 1
startTag == 2
\* the value `undefined` of the renderMode field, which no init of Comp sets
UndefinedMode == -1

\* _generateId(8) in the constructor
IdLength == 8

base62Chars ==
  << "0","1","2","3","4","5","6","7","8","9",
     "A","B","C","D","E","F","G","H","I","J","K","L","M",
     "N","O","P","Q","R","S","T","U","V","W","X","Y","Z",
     "a","b","c","d","e","f","g","h","i","j","k","l","m",
     "n","o","p","q","r","s","t","u","v","w","x","y","z" >>

DigitChars == {base62Chars[i] : i \in 1..10}

\* The seeds of Math.random the model draws from.  "distinct": every id
\* differs and starts with a letter; "mixed": every id differs, some start
\* with a digit; "colliding": ids repeat with period two.
Streams == {"distinct", "mixed", "colliding"}

\* Math.floor(Math.random() * 62), the p-th draw of stream s
Draw(s, p) ==
  LET k == (p - 1) \div IdLength
      j == (p - 1) % IdLength
  IN  IF j # 0 THEN (11 * j) % 62
      ELSE CASE s = "distinct"  -> 10 + (k % 52)
             [] s = "mixed"     -> (3 + 7 * k) % 62
             [] s = "colliding" -> 10 + (k % 2)

\* Comp._generateId: length characters, each base62Chars[draw]
_generateId(length, s, p) ==
  [i \in 1..length |-> base62Chars[Draw(s, p + i) + 1]]

\* an argument of compose / an entry of options.children: a string or a node
StrArg(s) == [r |-> 0, s |-> s]
NodeArg(r) == [r |-> r, s |-> ""]
\* typeof children[0] === 'string'
IsString(a) == a.r = 0

\* the three shapes of IClassNames
ClassString(chars) == [shape |-> "string", str |-> chars, arr |-> <<>>, obj |-> <<>>]
ClassArray(arr) == [shape |-> "array", str |-> <<>>, arr |-> arr, obj |-> <<>>]
ClassObject(obj) == [shape |-> "object", str |-> <<>>, arr |-> <<>>, obj |-> obj]

\* an entry of an attributes object, in insertion order
AttrStr(k, s) == [k |-> k, t |-> "str", s |-> s, n |-> 0]
AttrNum(k, n) == [k |-> k, t |-> "num", s |-> "", n |-> n]
AttrNull(k) == [k |-> k, t |-> "null", s |-> "", n |-> 0]
AttrUndefined(k) == [k |-> k, t |-> "undefined", s |-> "", n |-> 0]

\* a key that is a canonical array index ("0", "1", ...; the model writes
\* single digits only)
IsIndexKey(k) == \E i \in 0..9 : ToString(i) = k
KeyIndex(k) == CHOOSE i \in 0..9 : ToString(i) = k

\* Object.keys(obj) on the entries of a plain object, given in insertion
\* order: the index keys in ascending numeric order first, then the other
\* keys in insertion order
ObjectKeys(entries) ==
  SortSeq(SelectSeq(entries, LAMBDA e : IsIndexKey(e.k)),
          LAMBDA x, y : KeyIndex(x.k) < KeyIndex(y.k))
    \o SelectSeq(entries, LAMBDA e : ~IsIndexKey(e.k))

\* attr[key] = value on a plain object: overwrite in place or append
SetAttr(attrs, e) ==
  IF \E i \in 1..Len(attrs) : attrs[i].k = e.k
  THEN [i \in 1..Len(attrs) |-> IF attrs[i].k = e.k THEN e ELSE attrs[i]]
  ELSE Append(attrs, e)

---------------------------------------------------------------------------
(* Strings as character sequences: join and split *)

RECURSIVE ConcatTo(_, _)
\* the string made of the first k strings of cs
ConcatTo(cs, k) == IF k = 0 THEN "" ELSE ConcatTo(cs, k - 1) \o cs[k]

\* chars.join(''): the string made of the strings cs
Concat(cs) == ConcatTo(cs, Len(cs))

RECURSIVE SplitFrom(_, _, _)
\* String.prototype.split(sep) on the characters cs; cur is the entry so far
SplitFrom(cs, sep, cur) ==
  IF cs = <<>> THEN <<Concat(cur)>>
  ELSE IF Head(cs) = sep THEN <<Concat(cur)>> \o SplitFrom(Tail(cs), sep, <<>>)
  ELSE SplitFrom(Tail(cs), sep, Append(cur, Head(cs)))

Split(cs, sep) == SplitFrom(cs, sep, <<>>)

RECURSIVE Join(_, _)
\* Array.prototype.join(sep), as pieces
Join(xs, sep) ==
  IF xs = <<>> THEN <<>>
  ELSE IF Len(xs) = 1 THEN <<xs[1]>>
  ELSE <<xs[1], sep>> \o Join(Tail(xs), sep)

RECURSIVE Flatten(_)
\* concatenation of a sequence of sequences
Flatten(xss) == IF xss = <<>> THEN <<>> ELSE Head(xss) \o Flatten(Tail(xss))

---------------------------------------------------------------------------
(* Objects *)

\* a Comp object as the constructor finds it: every field undefined
BlankComp(cls, id, options) ==
  [ cls |-> cls, id |-> id, options |-> options,
    tagName |-> Undefined, attributes |-> <<>>, classNames |-> <<>>,
    children |-> <<>>, content |-> Undefined, parent |-> 0,
    registrations |-> <<>>, renderMode |-> UndefinedMode, literal |-> <<>> ]

\* new Literal(literal)
NewLiteral(pieces) ==
  [ cls |-> "Literal", id |-> <<>>, options |-> <<>>,
    tagName |-> Undefined, attributes |-> <<>>, classNames |-> <<>>,
    children |-> <<>>, content |-> Undefined, parent |-> 0,
    registrations |-> <<>>, renderMode |-> UndefinedMode, literal |-> pieces ]

IsComp(o) == o.cls # "Literal"

\* Comp.init without the reset of children
Comp_init_keepChildren(o) ==
  [o EXCEPT !.tagName = "div", !.attributes = <<>>, !.classNames = <<>>,
            !.registrations = <<>>]

\* Comp.init: the base reset
Comp_init(o) ==
  [o EXCEPT !.tagName = "div", !.attributes = <<>>, !.classNames = <<>>,
            !.children = <<>>, !.registrations = <<>>]

\* the class-name normalisation of compose
NormalizeClassNames(c) ==
  CASE c.shape = "string" -> Split(c.str, " ")
    [] c.shape = "array"  -> c.arr
    [] c.shape = "object" ->
         LET kept == SelectSeq(ObjectKeys(c.obj), LAMBDA e : e.v)
         IN  [i \in 1..Len(kept) |-> kept[i].k]

RECURSIVE SetParents(_, _, _)
\* this.children.forEach(child => child.parent = this)
SetParents(h, refs, n) ==
  IF refs = <<>> THEN h
  ELSE SetParents([h EXCEPT ![Head(refs)].parent = n], Tail(refs), n)

\* Comp.compose on object n of heap h
compose(h, n, tagName, attributes, classNames, children) ==
  LET h1 == [h EXCEPT ![n].tagName = tagName,
                      ![n].attributes = attributes,
                      ![n].classNames = NormalizeClassNames(classNames)]
  IN  IF Len(children) = 1 /\ IsString(children[1])
      THEN [h1 EXCEPT ![n].content = children[1].s]
      ELSE LET refs == [i \in 1..Len(children) |-> children[i].r]
           IN  SetParents([h1 EXCEPT ![n].children = refs], refs, n)

\* Comp.appendChild
appendChild(h, n, child) ==
  [h EXCEPT ![child].parent = n, ![n].children = Append(@, child)]

\* Comp.register
register(h, n, type, listener, useCapture) ==
  [h EXCEPT ![n].registrations =
     Append(@, [type |-> type, listener |-> listener, useCapture |-> useCapture])]

\* options.renderMode, undefined when the key is absent
OptRenderMode(o) ==
  IF "renderMode" \in DOMAIN o THEN o.renderMode ELSE UndefinedMode

\* truthiness of a renderMode value: undefined and 0 are falsy
TruthyMode(m) == m # UndefinedMode /\ m # 0

\* SystemComp.init
SystemComp_init(h, n) ==
  LET h1 == [h EXCEPT ![n] = Comp_init(@)]
      o  == h1[n].options
      h2 == compose(h1, n, o.tagName, o.attributes, o.classNames, o.children)
  IN  IF TruthyMode(OptRenderMode(o))
      THEN [h2 EXCEPT ![n].renderMode = OptRenderMode(o)]
      ELSE h2

\* BuiltinComp.init and UserComp.init
BuiltinComp_init(o) ==
  [Comp_init(o) EXCEPT !.tagName = "div", !.renderMode = normal]

\* If.init
If_init(h, n) ==
  LET o1 == BuiltinComp_init(h[n])
      o2 == [o1 EXCEPT !.attributes = SetAttr(@, AttrNull("comp-if"))]
      c  == IF o2.options.if THEN o2.options.then ELSE o2.options.else
  IN  [h EXCEPT ![n] = [o2 EXCEPT !.children = Append(@, c)]]

\* the state an init or a constructor runs in and leaves: the heap and the
\* generator; ref is the object a constructor returns
Machine(h, r) == [heap |-> h, rand |-> r, ref |-> 0]

\* new SystemComp(options): the constructor of Comp, then SystemComp.init
New_SystemComp(M, options) ==
  LET id == _generateId(IdLength, M.rand.stream, M.rand.pos)
      n  == Len(M.heap) + 1
      h0 == Append(M.heap, BlankComp("SystemComp", id, options))
  IN  [heap |-> SystemComp_init(h0, n),
       rand |-> [M.rand EXCEPT !.pos = @ + IdLength],
       ref  |-> n]

\* element(tagName, attributes, classNames, ...children)
element(M, tagName, attributes, classNames, children) ==
  New_SystemComp(M, [tagName |-> tagName, attributes |-> attributes,
                     classNames |-> classNames, children |-> children,
                     renderMode |-> normal])

\* selfClosingElement(tagName, attributes, classNames)
selfClosingElement(M, tagName, attributes, classNames) ==
  New_SystemComp(M, [tagName |-> tagName, attributes |-> attributes,
                     classNames |-> classNames, children |-> <<>>,
                     renderMode |-> selfClosing])

\* the mapper functions a For node is given
Mappers == {"span", "br"}

\* options.mapper(item)
Mapper(M, name, item) ==
  IF name = "span"
  THEN element(M, "span", <<>>, ClassArray(<<>>), <<StrArg(item)>>)
  ELSE [heap |-> Append(M.heap, NewLiteral(<<"<", "br", ">">>)),
        rand |-> M.rand,
        ref  |-> Len(M.heap) + 1]

\* objects one call of the mapper creates
MapperCost(name) == 1

RECURSIVE ForEachPush(_, _, _)
\* options.data.forEach(item => this.children.push(options.mapper(item)))
ForEachPush(M, n, items) ==
  IF items = <<>> THEN M
  ELSE LET c == Mapper(M, M.heap[n].options.mapper, Head(items))
       IN  ForEachPush([c EXCEPT !.heap[n].children = Append(@, c.ref)],
                       n, Tail(items))

\* For.init
For_init(M, n) ==
  LET o1 == BuiltinComp_init(M.heap[n])
      o2 == [o1 EXCEPT !.attributes = SetAttr(@, AttrNull("comp-for"))]
  IN  ForEachPush([M EXCEPT !.heap[n] = o2], n, o2.options.data)

\* the stars of a Rating
RatingStars == 5
symbol0 == "\\u2606"
symbol1 == "\\u2605"

RECURSIVE RatingSpans(_, _, _, _)
\* [0, 1, 2, 3, 4].map(i => span({ 'data-value': i + 1 }, ['rating-star'], ...))
\* from index i on; refs are the spans made so far
RatingSpans(M, n, i, refs) ==
  IF i >= RatingStars THEN [M EXCEPT !.ref = refs]
  ELSE LET c == element(M, "span", <<AttrNum("data-value", i + 1)>>,
                        ClassArray(<<"rating-star">>),
                        <<StrArg(IF M.heap[n].options.rating > i
                                 THEN symbol1 ELSE symbol0)>>)
       IN  RatingSpans(c, n, i + 1, Append(refs, c.ref))

\* the click listener Rating.init creates: a closure over this, a new
\* function object at every run of init; made tells the objects apart
RatingListener(n, made) == [fn |-> "Rating.click", self |-> n, made |-> made]
\* a function of an outside caller
OutsideListener(f) == [fn |-> f, self |-> 0]

\* Rating.init
Rating_init(M, n) ==
  LET o1 == BuiltinComp_init(M.heap[n])
      M1 == RatingSpans([M EXCEPT !.heap[n] = o1], n, 0, <<>>)
      h2 == compose(M1.heap, n, "span", <<>>, ClassArray(<<>>),
                    [i \in 1..Len(M1.ref) |-> NodeArg(M1.ref[i])])
  IN  [M1 EXCEPT !.heap = register(h2, n, "click",
                                   RatingListener(n, Len(M1.heap)), FALSE),
                 !.ref = 0]

\* this.init(), dispatched on the class of object n
init(M, n) ==
  CASE M.heap[n].cls = "SystemComp" -> [M EXCEPT !.heap = SystemComp_init(M.heap, n)]
    [] M.heap[n].cls = "If"         -> [M EXCEPT !.heap = If_init(M.heap, n)]
    [] M.heap[n].cls = "For"        -> For_init(M, n)
    [] M.heap[n].cls = "Rating"     -> Rating_init(M, n)

\* objects init creates for an object of class cls with these options
InitCost(cls, options) ==
  CASE cls = "For"    -> Len(options.data) * MapperCost(options.mapper)
    [] cls = "Rating" -> RatingStars
    [] OTHER          -> 0

\* new cls(options): the constructor of Comp
New(M, cls, options) ==
  LET id == _generateId(IdLength, M.rand.stream, M.rand.pos)
      n  == Len(M.heap) + 1
      M0 == [heap |-> Append(M.heap, BlankComp(cls, id, options)),
             rand |-> [M.rand EXCEPT !.pos = @ + IdLength],
             ref  |-> 0]
  IN  [init(M0, n) EXCEPT !.ref = n]

---------------------------------------------------------------------------
(* Serialisation *)

\* `${attr[key]}`
AttrValueString(e) == IF e.t = "num" THEN ToString(e.n) ELSE e.s

\* the _attr helper of _toHtml
_attr(attr) ==
  LET kept == SelectSeq(ObjectKeys(attr), LAMBDA e : e.t # "undefined")
      entry(e) == IF e.t # "null"
                  THEN <<e.k, "=\"", AttrValueString(e), "\"">>
                  ELSE <<e.k>>
  IN  Flatten(Join([i \in 1..Len(kept) |-> entry(kept[i])], <<" ">>))

\* this.content || ...: undefined and '' are falsy
TruthyString(s) == s # Undefined /\ s # ""

RECURSIVE _toHtml(_, _)
\* _toHtml that serialises a self-closing node as a normal one
_toHtml_closeAll(h, n) ==
  IF h[n].cls = "Literal" THEN h[n].literal
  ELSE IF h[n].renderMode = startTag THEN <<"<", h[n].tagName, ">">>
  ELSE <<"<", h[n].tagName, " comp-id=\"">> \o h[n].id \o <<"\" class=\"">>
         \o Join(h[n].classNames, " ") \o <<"\" ">> \o _attr(h[n].attributes)
         \o <<">">>
         \o (IF TruthyString(h[n].content) THEN <<h[n].content>>
             ELSE Flatten([i \in 1..Len(h[n].children) |-> _toHtml(h, h[n].children[i])]))
         \o <<"</", h[n].tagName, ">">>

\* Literal._toHtml and Comp._toHtml
_toHtml(h, n) ==
  LET o == h[n] IN
  IF o.cls = "Literal" THEN o.literal
  ELSE IF o.renderMode = selfClosing
  THEN <<"<", o.tagName, " comp-id=\"">> \o o.id \o <<"\" class=\"">>
         \o Join(o.classNames, " ") \o <<"\" ">> \o _attr(o.attributes)
         \o <<" />">>
  ELSE IF o.renderMode = startTag
  THEN <<"<", o.tagName, ">">>
  ELSE LET content ==
             IF TruthyString(o.content) THEN <<o.content>>
             ELSE Flatten([i \in 1..Len(o.children) |-> _toHtml(h, o.children[i])])
       IN  <<"<", o.tagName, " comp-id=\"">> \o o.id \o <<"\" class=\"">>
             \o Join(o.classNames, " ") \o <<"\" ">> \o _attr(o.attributes)
             \o <<">">> \o content \o <<"</", o.tagName, ">">>

---------------------------------------------------------------------------
(* The host document: parsing markup into live elements *)

\* elements the HTML parser never gives content or an end tag
VoidTags == {"input", "img", "br", "hr"}

\* the tokens of the live tree
LiveOpen(tag, compId, attrs) ==
  [t |-> "open", tag |-> tag, compId |-> compId, attrs |-> attrs,
   listeners |-> <<>>, text |-> ""]
LiveClose(tag) ==
  [t |-> "close", tag |-> tag, compId |-> <<>>, attrs |-> <<>>,
   listeners |-> <<>>, text |-> ""]
LiveText(s) ==
  [t |-> "text", tag |-> "", compId |-> <<>>, attrs |-> <<>>,
   listeners |-> <<>>, text |-> s]

\* the first index from i on where piece x stands (past the end when none)
IndexOf(p, i, x) ==
  LET hits == {j \in i..Len(p) : p[j] = x}
  IN  IF hits = {} THEN Len(p) + 1
      ELSE CHOOSE j \in hits : \A k \in hits : j <= k

RECURSIVE ParseAttrs(_)
\* the attributes written in the pieces r of a start tag, after the class
ParseAttrs(r) ==
  IF r = <<>> THEN <<>>
  ELSE IF Head(r) = " " THEN ParseAttrs(Tail(r))
  ELSE IF Len(r) >= 4 /\ r[2] = "=\""
  THEN <<[k |-> r[1], v |-> r[3]]>> \o ParseAttrs(SubSeq(r, 5, Len(r)))
  ELSE <<[k |-> r[1], v |-> ""]>> \o ParseAttrs(Tail(r))

\* the upper-case letters and their lower-case forms
UpperLetters ==
  <<"A", "B", "C", "D", "E", "F", "G", "H", "I", "J", "K", "L", "M",
    "N", "O", "P", "Q", "R", "S", "T", "U", "V", "W", "X", "Y", "Z">>
LowerLetters ==
  <<"a", "b", "c", "d", "e", "f", "g", "h", "i", "j", "k", "l", "m",
    "n", "o", "p", "q", "r", "s", "t", "u", "v", "w", "x", "y", "z">>

\* the attribute name the tokenizer keeps: ASCII lower case. A name is one
\* piece; the names of more than one letter written here hold no upper case
AsciiLower(name) ==
  IF \E i \in 1..Len(UpperLetters) : UpperLetters[i] = name
  THEN LowerLetters[CHOOSE i \in 1..Len(UpperLetters) : UpperLetters[i] = name]
  ELSE name

RECURSIVE TagAttrs(_, _)
\* the attributes of a start tag from those written in it: names in lower
\* case, an attribute whose name the tag already holds dropped
TagAttrs(kept, written) ==
  IF written = <<>> THEN kept
  ELSE LET e == [Head(written) EXCEPT !.k = AsciiLower(@)]
       IN  IF \E j \in 1..Len(kept) : kept[j].k = e.k
           THEN TagAttrs(kept, Tail(written))
           ELSE TagAttrs(Append(kept, e), Tail(written))

\* the elements of the standard's special category among the tags written
SpecialTags == {"div", "p"} \cup VoidTags

\* the start tags that close an open p element first
PClosers == {"div", "p", "hr"}

\* an end tag of an ordinary element finds its element on the stack: no
\* special element is open above the topmost element named tag
Closable(stack, tag) ==
  \E j \in 1..Len(stack) :
    /\ stack[j] = tag
    /\ \A k \in (j + 1)..Len(stack) : stack[k] # tag /\ stack[k] \notin SpecialTags

\* the end tags that close the open elements of stack down to tag (top last)
RECURSIVE PopTo(_, _)
PopTo(stack, tag) ==
  IF stack = <<>> THEN <<>>
  ELSE IF stack[Len(stack)] = tag THEN <<LiveClose(tag)>>
  ELSE <<LiveClose(stack[Len(stack)])>> \o PopTo(SubSeq(stack, 1, Len(stack) - 1), tag)

RECURSIVE CloseAll(_)
CloseAll(stack) ==
  IF stack = <<>> THEN <<>>
  ELSE <<LiveClose(stack[Len(stack)])>> \o CloseAll(SubSeq(stack, 1, Len(stack) - 1))

\* the stack below the topmost open element named tag
StackBelow(stack, tag) ==
  LET top == CHOOSE j \in 1..Len(stack) :
               stack[j] = tag /\ \A k \in (j + 1)..Len(stack) : stack[k] # tag
  IN  SubSeq(stack, 1, top - 1)

RECURSIVE ParseFrom(_, _, _)
\* The HTML fragment parser on the pieces p from index i, with the stack of
\* open elements. A start tag creates an element: a div, p or hr first
\* closes an open p with everything open inside it, a void element is
\* closed at once, a "/>" on any other tag is ignored. An end tag </p>
\* closes the open p, or makes an empty p when none is open; </br> makes a
\* br; </div> closes the open elements down to the div; the end tag of an
\* ordinary element closes down to its element unless a special element is
\* open above it; an end tag that finds no element is ignored. Any other
\* piece is text, and the end of the fragment closes what is open.
ParseFrom(p, i, stack) ==
  IF i > Len(p) THEN CloseAll(stack)
  ELSE IF p[i] = "<"
  THEN LET tag    == p[i + 1]
           bare   == p[i + 2] = ">"
           idEnd  == IndexOf(p, i + 3, "\" class=\"")
           clsEnd == IndexOf(p, idEnd + 1, "\" ")
           tagEnd == IF IndexOf(p, clsEnd + 1, ">") < IndexOf(p, clsEnd + 1, " />")
                     THEN IndexOf(p, clsEnd + 1, ">")
                     ELSE IndexOf(p, clsEnd + 1, " />")
           compId == IF bare THEN <<>> ELSE SubSeq(p, i + 3, idEnd - 1)
           attrs  == IF bare THEN <<>>
                     ELSE TagAttrs(<<>>,
                            <<[k |-> "comp-id", v |-> Concat(compId)],
                              [k |-> "class", v |-> Concat(SubSeq(p, idEnd + 1, clsEnd - 1))]>>
                            \o ParseAttrs(SubSeq(p, clsEnd + 1, tagEnd - 1)))
           next   == IF bare THEN i + 3 ELSE tagEnd + 1
           closeP == tag \in PClosers /\ \E j \in 1..Len(stack) : stack[j] = "p"
           closed == IF closeP THEN PopTo(stack, "p") ELSE <<>>
           open   == IF closeP THEN StackBelow(stack, "p") ELSE stack
       IN  IF tag \in VoidTags
           THEN closed \o <<LiveOpen(tag, compId, attrs), LiveClose(tag)>>
                  \o ParseFrom(p, next, open)
           ELSE closed \o <<LiveOpen(tag, compId, attrs)>>
                  \o ParseFrom(p, next, Append(open, tag))
  ELSE IF p[i] = "</"
  THEN LET tag   == p[i + 1]
           found == \E j \in 1..Len(stack) : stack[j] = tag
       IN  IF tag = "p" /\ ~found
           THEN <<LiveOpen("p", <<>>, <<>>), LiveClose("p")>> \o ParseFrom(p, i + 3, stack)
           ELSE IF tag = "br"
           THEN <<LiveOpen("br", <<>>, <<>>), LiveClose("br")>> \o ParseFrom(p, i + 3, stack)
           ELSE IF found /\ (tag \in SpecialTags \/ Closable(stack, tag))
           THEN PopTo(stack, tag) \o ParseFrom(p, i + 3, StackBelow(stack, tag))
           ELSE ParseFrom(p, i + 3, stack)
  ELSE <<LiveText(p[i])>> \o ParseFrom(p, i + 1, stack)

Parse(p) == ParseFrom(p, 1, <<>>)

---------------------------------------------------------------------------
(* The host document: lookup, splice, remove, listeners *)

\* opens minus closes among the tokens i..j of d
Depth(d, i, j) ==
  Cardinality({k \in i..j : d[k].t = "open"})
    - Cardinality({k \in i..j : d[k].t = "close"})

\* the close token that ends the element opened at i
MatchClose(d, i) ==
  CHOOSE j \in (i + 1)..Len(d) :
    /\ Depth(d, i, j) = 0
    /\ \A k \in (i + 1)..(j - 1) : Depth(d, i, k) # 0

\* the live elements carrying the identity marker id
LiveWith(d, id) == {i \in 1..Len(d) : d[i].t = "open" /\ d[i].compId = id}

\* `[comp-id=${id}]` is a selector only if the unquoted value is a CSS
\* identifier, which no string starting with a digit is
ValidSelector(id) == id # <<>> /\ id[1] \notin DigitChars

\* document.querySelector(`[comp-id=${id}]`): the first match in document
\* order, 0 for null
querySelector(d, id) ==
  LET hits == LiveWith(d, id)
  IN  IF hits = {} THEN 0
      ELSE CHOOSE i \in hits : \A k \in hits : i <= k

\* old.insertAdjacentHTML('beforebegin', html) for the element opened at i
insertAdjacentHTML(d, i, html) ==
  SubSeq(d, 1, i - 1) \o Parse(html) \o SubSeq(d, i, Len(d))

\* old.remove() for the element opened at i
remove(d, i) ==
  SubSeq(d, 1, i - 1) \o SubSeq(d, MatchClose(d, i) + 1, Len(d))

\* element.addEventListener(type, listener, useCapture): a listener already
\* on the element with the same type and capture flag is not added again
addEventListener(d, i, reg) ==
  IF \E k \in 1..Len(d[i].listeners) : d[i].listeners[k] = reg
  THEN d
  ELSE [d EXCEPT ![i].listeners = Append(@, reg)]

\* Comp._element for object o: "SyntaxError" when querySelector rejects the
\* selector, else the index of the element found, 0 for null
_element(d, o) ==
  IF ValidSelector(o.id) THEN querySelector(d, o.id) ELSE -1

RECURSIVE DoRegsFrom(_, _, _)
\* registrations.forEach(r => this._element().addEventListener(...)) from
\* registration k on; the call throws at the first registration whose
\* _element() throws or is null
DoRegsFrom(d, o, k) ==
  IF k > Len(o.registrations) THEN [dom |-> d, outcome |-> "ok"]
  ELSE LET e == _element(d, o)
       IN  IF e = -1 THEN [dom |-> d, outcome |-> "SyntaxError"]
           ELSE IF e = 0 THEN [dom |-> d, outcome |-> "TypeError"]
           ELSE DoRegsFrom(addEventListener(d, e, o.registrations[k]), o, k + 1)

\* Comp._doRegistrations
_doRegistrations(d, o) == DoRegsFrom(d, o, 1)

---------------------------------------------------------------------------
(* The public operations *)

\* Object.assign that lets the keys the options already hold win
Assign_keepExisting(options, partial) ==
  [k \in DOMAIN options \cup DOMAIN partial |->
     IF k \in DOMAIN options THEN options[k] ELSE partial[k]]

\* Object.assign(options, partial)
Assign(options, partial) ==
  [k \in DOMAIN options \cup DOMAIN partial |->
     IF k \in DOMAIN partial THEN partial[k] ELSE options[k]]

\* what a call of update leaves behind and how it ends
Outcome(M, d, outcome) ==
  [heap |-> M.heap, rand |-> M.rand, dom |-> d, outcome |-> outcome]

\* a last step that also attaches the registrations of the node's first child
update_rebind_firstChild(M, d, n) ==
  LET reg == _doRegistrations(d, M.heap[n])
      c   == M.heap[n].children
      sub == IF reg.outcome = "ok" /\ c # <<>> /\ IsComp(M.heap[c[1]])
             THEN _doRegistrations(reg.dom, M.heap[c[1]])
             ELSE reg
  IN  Outcome(M, sub.dom, sub.outcome)

\* update, its last step: this._doRegistrations(), on the document d
update_rebind(M, d, n) ==
  LET reg == _doRegistrations(d, M.heap[n])
  IN  Outcome(M, reg.dom, reg.outcome)

\* a replace step that leaves the old element in the document
update_replace_keepOld(d, old, html) == insertAdjacentHTML(d, old, html)

\* update, the replace step: old.insertAdjacentHTML('beforebegin',
\* this._toHtml()), which moves old down by the tokens inserted, then
\* old.remove()
update_replace(d, old, html) ==
  remove(insertAdjacentHTML(d, old, html), old + Len(Parse(html)))

\* update that returns without a word when old is null
update_element_silent(M, d, n, old) ==
  IF old = -1 THEN Outcome(M, d, "SyntaxError")
  ELSE IF old = 0 THEN Outcome(M, d, "ok")
  ELSE update_rebind(M, update_replace(d, old, _toHtml(M.heap, n)), n)

\* update from const old = this._element() on; a thrown querySelector and a
\* null old end the call before the document is touched
update_element(M, d, n, old) ==
  IF old = -1 THEN Outcome(M, d, "SyntaxError")
  ELSE IF old = 0 THEN Outcome(M, d, "TypeError")
  ELSE update_rebind(M, update_replace(d, old, _toHtml(M.heap, n)), n)

\* update after Object.assign and this.init() have left the machine M
update_located(M, d, n) == update_element(M, d, n, _element(d, M.heap[n]))

\* update that looks for the live counterpart first and leaves the node alone
\* when there is none
update_atomic(h, d, r, n, partial) ==
  IF _element(d, h[n]) = -1 THEN Outcome(Machine(h, r), d, "SyntaxError")
  ELSE IF _element(d, h[n]) = 0 THEN Outcome(Machine(h, r), d, "TypeError")
  ELSE update_located(init(Machine([h EXCEPT ![n].options = Assign(@, partial)], r), n),
                      d, n)

\* update that draws a new identity when it re-initialises the node
update_newId(h, d, r, n, partial) ==
  update_located(
    init(Machine([h EXCEPT ![n].options = Assign(@, partial),
                           ![n].id = _generateId(IdLength, r.stream, r.pos)], r), n),
    d, n)

\* Comp.update(options) on object n
update(h, d, r, n, partial) ==
  update_located(init(Machine([h EXCEPT ![n].options = Assign(@, partial)], r), n),
                 d, n)

\* Comp.renderTo(selector) on object n, the selector naming the container
renderTo(h, d, n) ==
  _doRegistrations(Parse(_toHtml(h, n)), h[n])

---------------------------------------------------------------------------
(* Events: a click on a live element and the listeners it reaches *)

\* the value NaN of a rating: NaN > i is false for every i, as -1 > i is
NaN == -1

\* element.getAttribute(name) of the element opened at i, "null" when absent
getAttribute(d, i, name) ==
  LET hits == {j \in 1..Len(d[i].attrs) : d[i].attrs[j].k = name}
  IN  IF hits = {} THEN "null"
      ELSE d[i].attrs[CHOOSE j \in hits : \A k \in hits : j <= k].v

\* parseInt(s) for the attribute values the model writes
parseInt(s) ==
  IF \E k \in 0..9 : ToString(k) = s
  THEN CHOOSE k \in 0..9 : ToString(k) = s
  ELSE NaN

RECURSIVE PathRegs(_, _, _)
\* the listeners a click on the element opened at i reaches while bubbling:
\* those of the element, then those of its ancestors, innermost first
PathRegs(d, j, i) ==
  IF j = 0 THEN <<>>
  ELSE IF j = i \/ (d[j].t = "open" /\ MatchClose(d, j) > i)
  THEN d[j].listeners \o PathRegs(d, j - 1, i)
  ELSE PathRegs(d, j - 1, i)

\* a click listener that takes the position before the one clicked
RatingClick_offByOne(res, n, value) ==
  update(res.heap, res.dom, res.rand, n, [rating |-> parseInt(value) - 1])

\* the click listener of Rating.init on object n, the target carrying value
RatingClick(res, n, value) ==
  update(res.heap, res.dom, res.rand, n, [rating |-> parseInt(value)])

RECURSIVE dispatchEvent(_, _, _, _)
\* the listeners regs called in turn from the k-th on; a listener of an
\* outside caller changes nothing, and an error thrown by a listener is
\* reported while the remaining listeners still run
dispatchEvent(res, regs, k, value) ==
  IF k > Len(regs) THEN res
  ELSE IF regs[k].type # "click" \/ regs[k].listener.self = 0
  THEN dispatchEvent(res, regs, k + 1, value)
  ELSE dispatchEvent(
         [RatingClick(res, regs[k].listener.self, value)
            EXCEPT !.outcome = IF res.outcome # "ok" THEN res.outcome ELSE @],
         regs, k + 1, value)

---------------------------------------------------------------------------
(* The callers' inputs *)

Range(f) == {f[i] : i \in DOMAIN f}

\* sequences over S of length lo..hi
SeqsOf(S, lo, hi) == UNION {[1..k -> S] : k \in lo..hi}

\* the objects an object refers to as children, now or after its next init
RefsOf(o) ==
  Range(o.children)
    \cup (CASE o.cls = "SystemComp" -> {a.r : a \in Range(o.options.children)} \ {0}
            [] o.cls = "If"         -> {o.options.then, o.options.else}
            [] OTHER                -> {})

RECURSIVE ReachFrom(_, _, _)
\* the objects reachable from the set S in at most fuel steps
ReachFrom(h, S, fuel) ==
  LET T == S \cup UNION {RefsOf(h[n]) : n \in S}
  IN  IF fuel = 0 \/ T = S THEN S ELSE ReachFrom(h, T, fuel - 1)

\* attaching the objects C below n makes no cycle
Acyclic(h, n, C) == n \notin ReachFrom(h, C, Len(h))

Comps(h) == {n \in 1..Len(h) : IsComp(h[n])}

\* element('span', {}, [], text)
TextOptions(text) ==
  [tagName |-> "span", attributes |-> <<>>, classNames |-> ClassArray(<<>>),
   children |-> <<StrArg(text)>>, renderMode |-> normal]

\* element('div', {}, [], ...children), the children being the objects of c
ContainerOptions(c) ==
  [tagName |-> "div", attributes |-> <<>>, classNames |-> ClassArray(<<>>),
   children |-> [i \in 1..Len(c) |-> NodeArg(c[i])], renderMode |-> normal]

\* selfClosingElement('input', {}, [])
LeafOptions ==
  [tagName |-> "input", attributes |-> <<>>, classNames |-> ClassArray(<<>>),
   children |-> <<>>, renderMode |-> selfClosing]

\* the partial options { children: [...c] } that keep the tree below n acyclic
ChildrenUpdates(h, n, lo, hi) ==
  {[children |-> [i \in 1..Len(c) |-> NodeArg(c[i])]]
     : c \in {x \in SeqsOf(1..Len(h), lo, hi) : Acyclic(h, n, Range(x))}}

\* the arguments of an outside call of compose, children apart:
\* ('p', { k: 'v' }, 'x y', ...)
ComposeArgs ==
  {[tagName |-> "p", attributes |-> <<AttrStr("k", "v")>>,
    classNames |-> ClassString(<<"x", " ", "y">>)]}

\* the functions outside callers register
Listeners == {"f"}

OutsideRegs(o) ==
  Cardinality({k \in 1..Len(o.registrations) : o.registrations[k].listener.self = 0})

---------------------------------------------------------------------------
(* The actions, each a whole call by an outside caller *)

Returned(op, n, outcome) == [op |-> op, node |-> n, outcome |-> outcome]

\* new cls(options) for some options of the set inputs, the heap holding at
\* most cap objects afterwards
NewFrom(cls, inputs, cap) ==
  \E o \in inputs :
    /\ Len(heap) + 1 + InitCost(cls, o) <= cap
    /\ LET M == New(Machine(heap, rand), cls, o)
       IN  /\ heap' = M.heap
           /\ rand' = M.rand
           /\ last' = Returned("new", M.ref, "ok")
    /\ UNCHANGED dom

\* br(): new Literal('<br>')
NewBr(cap) ==
  /\ Len(heap) < cap
  /\ heap' = Append(heap, NewLiteral(<<"<", "br", ">">>))
  /\ last' = Returned("new", Len(heap) + 1, "ok")
  /\ UNCHANGED <<dom, rand>>

\* node.register('click', f)
Register ==
  \E n \in Comps(heap), f \in Listeners :
    /\ OutsideRegs(heap[n]) < MaxRegs
    /\ heap' = register(heap, n, "click", OutsideListener(f), FALSE)
    /\ last' = Returned("register", n, "ok")
    /\ UNCHANGED <<dom, rand>>

\* node.appendChild(child)
AppendChild ==
  \E n \in Comps(heap), c \in 1..Len(heap) :
    /\ Len(heap[n].children) < MaxChildren
    /\ Acyclic(heap, n, {c})
    /\ heap' = appendChild(heap, n, c)
    /\ last' = Returned("appendChild", n, "ok")
    /\ UNCHANGED <<dom, rand>>

\* node.renderTo('#app')
RenderTo ==
  \E n \in Comps(heap) :
    LET res == renderTo(heap, dom, n)
    IN  /\ dom' = res.dom
        /\ last' = Returned("renderTo", n, res.outcome)
        /\ UNCHANGED <<heap, rand>>

\* node.update(partial), the heap holding at most cap objects afterwards
UpdateWith(n, partial, cap) ==
  /\ Len(heap) + InitCost(heap[n].cls, Assign(heap[n].options, partial)) <= cap
  /\ LET res == update(heap, dom, rand, n, partial)
     IN  /\ heap' = res.heap
         /\ dom' = res.dom
         /\ rand' = res.rand
         /\ last' = Returned("update", n, res.outcome)

\* node.compose(tagName, attributes, classNames, ...children) by an outside
\* caller, the children being one string, none, or one object of the heap
Compose ==
  \E n \in Comps(heap), a \in ComposeArgs :
    \E c \in {<<StrArg("b")>>}
             \cup {[i \in 1..Len(x) |-> NodeArg(x[i])]
                     : x \in {y \in SeqsOf(1..Len(heap), 0, 1)
                                : Acyclic(heap, n, Range(y))}} :
      /\ heap' = compose(heap, n, a.tagName, a.attributes, a.classNames, c)
      /\ last' = Returned("compose", n, "ok")
      /\ UNCHANGED <<dom, rand>>

\* node.init() by an outside caller, the heap holding at most cap objects
\* afterwards
InitCall(n, cap) ==
  /\ Len(heap) + InitCost(heap[n].cls, heap[n].options) <= cap
  /\ LET M == init(Machine(heap, rand), n)
     IN  /\ heap' = M.heap
         /\ rand' = M.rand
         /\ last' = Returned("init", n, "ok")
  /\ UNCHANGED dom

\* what a click leaves in last: the Rating whose listener ran first and the
\* position clicked
Clicked(n, k, outcome) == [op |-> "click", node |-> n, outcome |-> outcome, arg |-> k]

\* a click on a live star that some listener hears, the heap holding at most
\* cap objects afterwards
Click(cap) ==
  \E i \in 1..Len(dom) :
    /\ dom[i].t = "open"
    /\ getAttribute(dom, i, "data-value") # "null"
    /\ \E k \in 1..Len(PathRegs(dom, i, i)) : PathRegs(dom, i, i)[k].listener.self # 0
    /\ Len(heap) + RatingStars <= cap
    /\ LET regs == SelectSeq(PathRegs(dom, i, i), LAMBDA r : r.listener.self # 0)
           res  == dispatchEvent([heap |-> heap, rand |-> rand, dom |-> dom, outcome |-> "ok"],
                                 regs, 1, getAttribute(dom, i, "data-value"))
       IN  /\ heap' = res.heap
           /\ dom' = res.dom
           /\ rand' = res.rand
           /\ last' = Clicked(regs[1].listener.self,
                              parseInt(getAttribute(dom, i, "data-value")), res.outcome)

\* what an update leaves in last when the partial options are kept too
Updated(n, partial, outcome) ==
  [op |-> "update", node |-> n, outcome |-> outcome, arg |-> partial]

\* node.update(partial) as UpdateWith, the partial options kept in last
UpdateRecording(n, partial, cap) ==
  /\ Len(heap) + InitCost(heap[n].cls, Assign(heap[n].options, partial)) <= cap
  /\ LET res == update(heap, dom, rand, n, partial)
     IN  /\ heap' = res.heap
         /\ dom' = res.dom
         /\ rand' = res.rand
         /\ last' = Updated(n, partial, res.outcome)

\* the objects below n whose pending registrations are bound on their live
\* counterpart in the document d
BoundBelow(h, d, n) ==
  {c \in ReachFrom(h, {n}, Len(h)) \ {n} :
     /\ IsComp(h[c])
     /\ h[c].registrations # <<>>
     /\ _element(d, h[c]) > 0
     /\ d[_element(d, h[c])].listeners = h[c].registrations}

\* node.update(partial) as UpdateWith, last keeping the objects below the
\* node that were bound when update was called
UpdateBelow(n, partial, cap) ==
  /\ Len(heap) + InitCost(heap[n].cls, Assign(heap[n].options, partial)) <= cap
  /\ LET res == update(heap, dom, rand, n, partial)
     IN  /\ heap' = res.heap
         /\ dom' = res.dom
         /\ rand' = res.rand
         /\ last' = [op |-> "update", node |-> n, outcome |-> res.outcome,
                     arg |-> BoundBelow(heap, dom, n)]

\* what a call of _toHtml leaves in last: the markup returned
Serialized(n, html) == [op |-> "_toHtml", node |-> n, outcome |-> "ok", arg |-> html]

\* node._toHtml()
Serialize ==
  \E n \in Comps(heap) :
    /\ last' = Serialized(n, _toHtml(heap, n))
    /\ UNCHANGED <<heap, dom, rand>>

---------------------------------------------------------------------------
(* Spec: element trees, outside listeners, mount and update *)

Init ==
  /\ heap = <<>>
  /\ dom = <<>>
  /\ rand \in [stream : Streams, pos : {0}]
  /\ last = Returned("none", 0, "ok")

\* span({}, [], 'a') and div({}, [], ...children)
NewElement ==
  NewFrom("SystemComp",
          {TextOptions("a")}
            \cup {ContainerOptions(c) : c \in SeqsOf(1..Len(heap), 0, MaxChildren)},
          MaxNodes)

\* node.update({ children: ['b'] })
UpdateElement ==
  \E n \in Comps(heap) :
    UpdateWith(n, [children |-> <<StrArg("b")>>], MaxNodes)

Next ==
  \/ NewElement
  \/ Register
  \/ RenderTo
  \/ UpdateElement

Spec == Init /\ [][Next]_vars

---------------------------------------------------------------------------
(* SpecUpdate: element trees under mount and update, no outside listeners *)

\* objects the heap may hold under SpecUpdate
MaxUpdateNodes == 2

\* span({}, [], 'a') and div({}, [], ...children)
NewPlain ==
  NewFrom("SystemComp",
          {TextOptions("a")}
            \cup {ContainerOptions(c) : c \in SeqsOf(1..Len(heap), 0, MaxChildren)},
          MaxUpdateNodes)

\* node.update({ children: ['b'] })
UpdatePlain ==
  \E n \in Comps(heap) :
    UpdateWith(n, [children |-> <<StrArg("b")>>], MaxUpdateNodes)

NextUpdate ==
  \/ NewPlain
  \/ RenderTo
  \/ UpdatePlain

SpecUpdate == Init /\ [][NextUpdate]_vars

---------------------------------------------------------------------------
(* SpecShape: shapes of elements and conditionals under compose,           *)
(* appendChild and update                                                  *)

\* objects the heap may hold under SpecShape
MaxShapeNodes == 2

\* the options of span({}, [], 'a') and of input({}, [])
ShapeInputs == {TextOptions("a"), LeafOptions}

\* span({}, [], 'a') and input({}, [])
NewShape ==
  NewFrom("SystemComp", ShapeInputs, MaxShapeNodes)

\* new If({ if, then, else })
NewIf ==
  NewFrom("If",
          {[if |-> b, then |-> t, else |-> e]
             : b \in BOOLEAN, t \in 1..Len(heap), e \in 1..Len(heap)},
          MaxShapeNodes)

\* node.update({ children: [child] }) and node.update({ renderMode: normal })
UpdateShape ==
  \E n \in Comps(heap) :
    /\ heap[n].cls = "SystemComp"
    /\ \E p \in {[renderMode |-> normal]} \cup ChildrenUpdates(heap, n, 1, 1) :
         UpdateWith(n, p, MaxShapeNodes)

\* node.update({ if })
UpdateIf ==
  \E n \in Comps(heap) :
    /\ heap[n].cls = "If"
    /\ \E b \in BOOLEAN : UpdateWith(n, [if |-> b], MaxShapeNodes)

NextShape ==
  \/ NewShape
  \/ NewIf
  \/ AppendChild
  \/ RenderTo
  \/ UpdateShape
  \/ UpdateIf

SpecShape == Init /\ [][NextShape]_vars

---------------------------------------------------------------------------
(* SpecCompose: elements under construction, compose, init, appendChild    *)
(* and update, each called from outside                                    *)

\* node.init()
InitShape == \E n \in Comps(heap) : InitCall(n, MaxShapeNodes)

NextCompose ==
  \/ NewShape
  \/ AppendChild
  \/ Compose
  \/ InitShape
  \/ UpdateShape

SpecCompose == Init /\ [][NextCompose]_vars

---------------------------------------------------------------------------
(* SpecFor: list nodes *)

\* objects the heap may hold under SpecFor
MaxForNodes == 4
\* the longest source sequence a For is given
MaxData == 2
\* the For nodes a run constructs
MaxLists == 1

Items == {"a", "b"}

\* the options { data, mapper } a For is constructed with
ForInputs ==
  {[data |-> d, mapper |-> m] : d \in SeqsOf(Items, 0, MaxData), m \in Mappers}

\* new For({ data, mapper })
NewFor ==
  /\ Cardinality({n \in 1..Len(heap) : heap[n].cls = "For"}) < MaxLists
  /\ NewFrom("For", ForInputs, MaxForNodes)

\* list.renderTo('#app')
RenderFor ==
  \E n \in Comps(heap) :
    /\ heap[n].cls = "For"
    /\ LET res == renderTo(heap, dom, n)
       IN  /\ dom' = res.dom
           /\ last' = Returned("renderTo", n, res.outcome)
           /\ UNCHANGED <<heap, rand>>

\* list.update({ data })
UpdateFor ==
  \E n \in Comps(heap) :
    /\ heap[n].cls = "For"
    /\ \E d \in SeqsOf(Items, 0, MaxData) : UpdateWith(n, [data |-> d], MaxForNodes)

NextFor ==
  \/ NewFor
  \/ RenderFor
  \/ UpdateFor

SpecFor == Init /\ [][NextFor]_vars

---------------------------------------------------------------------------
(* SpecRating: Rating nodes, mount and clicks on their stars *)

\* objects the heap may hold under SpecRating
MaxRatingNodes == 16

\* the options { name, rating } a Rating is constructed with
RatingInputs == {[name |-> "r", rating |-> r] : r \in 0..RatingStars}

\* new Rating({ name, rating })
NewRating == NewFrom("Rating", RatingInputs, MaxRatingNodes)

\* rating.renderTo('#app')
RenderRating ==
  \E n \in Comps(heap) :
    /\ heap[n].cls = "Rating"
    /\ LET res == renderTo(heap, dom, n)
       IN  /\ dom' = res.dom
           /\ last' = Returned("renderTo", n, res.outcome)
           /\ UNCHANGED <<heap, rand>>

\* a click on a star of the mounted Rating
ClickStar == Click(MaxRatingNodes)

\* rating.init()
InitRating ==
  \E n \in Comps(heap) : heap[n].cls = "Rating" /\ InitCall(n, MaxRatingNodes)

NextRating ==
  \/ NewRating
  \/ RenderRating
  \/ ClickStar
  \/ InitRating

SpecRating == Init /\ [][NextRating]_vars

---------------------------------------------------------------------------
(* SpecNest: a Rating inside a container, updates of either from outside *)

\* objects the heap may hold under SpecNest
MaxNestNodes == 12

\* the options { name, rating } the Rating is constructed with
NestRatings == {[name |-> "r", rating |-> 1]}

\* the partial options of the updates
NestPartials == {[rating |-> 2], [renderMode |-> normal]}

\* new Rating({ name, rating }), one per run
NewNestRating ==
  /\ \A n \in 1..Len(heap) : heap[n].cls # "Rating"
  /\ NewFrom("Rating", NestRatings, MaxNestNodes)

\* div({}, [], rating), the Rating not yet a child of a container
NewPanel ==
  NewFrom("SystemComp",
          {ContainerOptions(<<r>>)
             : r \in {n \in 1..Len(heap) : heap[n].cls = "Rating" /\ heap[n].parent = 0}},
          MaxNestNodes)

\* node.update(partial) on the Rating or on a container
UpdateNest ==
  \E n \in Comps(heap), p \in NestPartials :
    /\ heap[n].cls = "Rating" \/ heap[n].children # <<>>
    /\ UpdateBelow(n, p, MaxNestNodes)

NextNest ==
  \/ NewNestRating
  \/ NewPanel
  \/ RenderTo
  \/ UpdateNest

SpecNest == Init /\ [][NextNest]_vars

---------------------------------------------------------------------------
(* SpecAbort: updates of nodes that hold outside listeners, mounted or not *)

\* objects the heap may hold under SpecAbort
MaxAbortNodes == 1

\* partial options that change the tag, the text, the classes
AbortPartials ==
  {[tagName |-> "p"], [children |-> <<StrArg("b")>>], [classNames |-> ClassArray(<<"y">>)]}

\* the options of span({ k: 'v' }, ['x'], 'a')
AbortInputs ==
  {[tagName |-> "span", attributes |-> <<AttrStr("k", "v")>>,
    classNames |-> ClassArray(<<"x">>), children |-> <<StrArg("a")>>,
    renderMode |-> normal]}

\* span({ k: 'v' }, ['x'], 'a')
NewAbort == NewFrom("SystemComp", AbortInputs, MaxAbortNodes)

\* node.update(partial)
UpdateAbort ==
  \E n \in Comps(heap), p \in AbortPartials :
    UpdateRecording(n, p, MaxAbortNodes)

NextAbort ==
  \/ NewAbort
  \/ Register
  \/ RenderTo
  \/ UpdateAbort

SpecAbort == Init /\ [][NextAbort]_vars

---------------------------------------------------------------------------
(* SpecMerge: updates with partial options of several key sets *)

\* objects the heap may hold under SpecMerge
MaxMergeNodes == 2

\* partial options: one key, two keys, a key the options do not hold yet
MergePartials ==
  { [children |-> <<StrArg("b")>>],
    [tagName |-> "p"],
    [tagName |-> "p", children |-> <<StrArg("b")>>],
    [title |-> "t"] }

\* the options of span({}, [], 'a')
MergeInputs == {TextOptions("a")}

\* span({}, [], 'a')
NewMerge == NewFrom("SystemComp", MergeInputs, MaxMergeNodes)

\* node.update(partial)
UpdateMerge ==
  \E n \in Comps(heap), p \in MergePartials :
    UpdateRecording(n, p, MaxMergeNodes)

NextMerge ==
  \/ NewMerge
  \/ RenderTo
  \/ UpdateMerge

SpecMerge == Init /\ [][NextMerge]_vars

---------------------------------------------------------------------------
(* SpecSerial: serialisation of nodes by content, children and render mode *)

\* objects the heap may hold under SpecSerial
MaxSerialNodes == 2

\* options of new SystemComp(options): no child, the text '' or the text
\* 'a', in each render mode
SerialInputs ==
  {[tagName |-> "span", attributes |-> <<>>, classNames |-> ClassArray(<<"x">>),
    children |-> c, renderMode |-> m]
     : c \in {<<>>, <<StrArg("")>>, <<StrArg("a")>>},
       m \in {normal, selfClosing, startTag}}

\* new SystemComp(options)
NewSerial == NewFrom("SystemComp", SerialInputs, MaxSerialNodes)

\* br()
NewLeaf == NewBr(MaxSerialNodes)

\* node.appendChild(br)
AppendLeaf ==
  \E n \in Comps(heap), c \in 1..Len(heap) :
    /\ heap[c].cls = "Literal"
    /\ Len(heap[n].children) < MaxChildren
    /\ heap' = appendChild(heap, n, c)
    /\ last' = Returned("appendChild", n, "ok")
    /\ UNCHANGED <<dom, rand>>

NextSerial ==
  \/ NewSerial
  \/ NewLeaf
  \/ AppendLeaf
  \/ Serialize

SpecSerial == Init /\ [][NextSerial]_vars

---------------------------------------------------------------------------
(* SpecAttr: serialisation of attribute objects *)

\* objects the heap may hold under SpecAttr
MaxAttrNodes == 1
\* keys an attributes object holds
MaxAttrs == 3

\* the entries attribute objects are made of: a string, a number, null,
\* undefined, and a string under an index key
AttrEntries ==
  { AttrStr("k", "v"), AttrNum("n", 1), AttrNull("d"), AttrUndefined("u"),
    AttrStr("1", "y") }

\* attribute objects: entries in insertion order, no key twice
AttrObjects ==
  {a \in SeqsOf(AttrEntries, 0, MaxAttrs) :
     \A i, j \in 1..Len(a) : i # j => a[i].k # a[j].k}

\* the options of element('span', attributes, [])
AttrInputs ==
  {[tagName |-> "span", attributes |-> a, classNames |-> ClassArray(<<>>),
    children |-> <<>>, renderMode |-> normal] : a \in AttrObjects}

\* element('span', attributes, [])
NewAttr == NewFrom("SystemComp", AttrInputs, MaxAttrNodes)

NextAttr ==
  \/ NewAttr
  \/ Serialize

SpecAttr == Init /\ [][NextAttr]_vars

---------------------------------------------------------------------------
(* SpecClass: class names given in the three shapes of IClassNames *)

\* objects the heap may hold under SpecClass
MaxClassNodes == 1
\* class names a list holds
MaxClasses == 2

\* the class names callers use, an integer-like one among them
ClassNames == {"a", "b", "1"}

\* ordered lists of class names, no name twice
ClassLists ==
  {l \in SeqsOf(ClassNames, 0, MaxClasses) :
     \A i, j \in 1..Len(l) : i # j => l[i] # l[j]}

\* the characters of the space-delimited string that lists l
StringOf(l) == Join(l, " ")

\* name-to-boolean mappings, entries in insertion order, no key twice
ClassMappings ==
  {m \in SeqsOf([k : ClassNames, v : BOOLEAN], 0, MaxClasses) :
     \A i, j \in 1..Len(m) : i # j => m[i].k # m[j].k}

\* class-name arguments of the three shapes
ClassArgs ==
  {ClassString(StringOf(l)) : l \in ClassLists}
    \cup {ClassArray(l) : l \in ClassLists}
    \cup {ClassObject(m) : m \in ClassMappings}

\* the options of element('span', {}, classNames)
ClassInputs ==
  {[tagName |-> "span", attributes |-> <<>>, classNames |-> c,
    children |-> <<>>, renderMode |-> normal] : c \in ClassArgs}

\* element('span', {}, classNames)
NewClass == NewFrom("SystemComp", ClassInputs, MaxClassNodes)

NextClass ==
  \/ NewClass
  \/ Serialize

SpecClass == Init /\ [][NextClass]_vars

---------------------------------------------------------------------------
(* Notions the claims use *)

RECURSIVE Below(_, _, _)
\* the objects of the subtree rooted at the objects S: S and whatever is
\* reached through children, in at most fuel steps
Below(h, S, fuel) ==
  LET T == S \cup UNION {Range(h[n].children) : n \in S}
  IN  IF fuel = 0 \/ T = S THEN S ELSE Below(h, T, fuel - 1)

Subtree(h, n) == Below(h, {n}, Len(h))

\* registration reg is bound to the live element opened at i
Bound(d, i, reg) ==
  /\ i > 0
  /\ \E k \in 1..Len(d[i].listeners) : d[i].listeners[k] = reg

\* the tokens of the live element opened at i, listeners left out
ElementAt(d, i) ==
  [k \in 1..(MatchClose(d, i) - i + 1) |-> [d[i + k - 1] EXCEPT !.listeners = <<>>]]

\* the identity the constructor gave object n: ids are drawn in the order
\* in which the Comp objects of the heap were constructed
ConstructionId(n) ==
  _generateId(IdLength, rand.stream,
              IdLength * Cardinality({m \in 1..(n - 1) : IsComp(heap[m])}))

RECURSIVE Shape(_, _)
\* what object n looks like, the identities of the objects left out
Shape(h, n) ==
  [ cls |-> h[n].cls, tagName |-> h[n].tagName, attributes |-> h[n].attributes,
    classNames |-> h[n].classNames, content |-> h[n].content,
    renderMode |-> h[n].renderMode, literal |-> h[n].literal,
    children |-> [i \in 1..Len(h[n].children) |-> Shape(h, h[n].children[i])] ]

\* the shape of a node freshly constructed with the options object n holds
FreshShape(n) ==
  LET M == New(Machine(heap, rand), heap[n].cls, heap[n].options)
  IN  Shape(M.heap, M.ref)

\* the stars among the tokens d, in document order: the encoded position
\* and the symbol of every element that carries a data-value
LiveStars(d) ==
  LET at == SelectSeq([i \in 1..Len(d) |-> i],
                      LAMBDA i : d[i].t = "open" /\ getAttribute(d, i, "data-value") # "null")
  IN  [k \in 1..Len(at) |->
         [value |-> getAttribute(d, at[k], "data-value"),
          symbol |-> IF at[k] < Len(d) /\ d[at[k] + 1].t = "text"
                     THEN d[at[k] + 1].text ELSE ""]]

\* the stars of a rating r: positions 1..5, filled up to r
StarsFor(r) ==
  [i \in 1..RatingStars |->
     [value |-> ToString(i), symbol |-> IF i <= r THEN symbol1 ELSE symbol0]]

\* the pieces of a markup string that are not empty: two sequences of
\* pieces are the same string when these are equal (no piece of the model
\* is split differently between them)
NonEmpty(p) == SelectSeq(p, LAMBDA x : x # "")

\* what stands between the start tag and the end tag of the markup html
InnerMarkup(html) == SubSeq(html, IndexOf(html, 1, ">") + 1, Len(html) - 3)

\* the serialisations of the children of object n, concatenated in order
ChildrenMarkup(h, n) ==
  Flatten([i \in 1..Len(h[n].children) |-> _toHtml(h, h[n].children[i])])

\* the pieces of the start tag of html that follow the class attribute
TagAttributes(html) ==
  SubSeq(html, IndexOf(html, 1, "\" ") + 1, IndexOf(html, 1, ">") - 1)

\* the entries a serialisation of the attributes attr emits when it takes
\* the keys in the order keys: none for undefined, the bare key for null,
\* key="value" otherwise, joined by single spaces
EmittedAttributes(keys) ==
  LET kept == SelectSeq(keys, LAMBDA e : e.t # "undefined")
  IN  Flatten([i \in 1..Len(kept) |->
                 (IF i > 1 THEN <<" ">> ELSE <<>>)
                   \o (IF kept[i].t = "null" THEN <<kept[i].k>>
                       ELSE <<kept[i].k, "=\"",
                              IF kept[i].t = "num" THEN ToString(kept[i].n) ELSE kept[i].s,
                              "\"">>)])

\* the ordered list of enabled class names a class-name argument denotes:
\* the names a string lists, the entries of a sequence, the keys a mapping
\* maps to true in insertion order
Denoted(c) ==
  CASE c.shape = "string" -> CHOOSE l \in ClassLists : StringOf(l) = c.str
    [] c.shape = "array"  -> c.arr
    [] c.shape = "object" ->
         [i \in 1..Len(SelectSeq(c.obj, LAMBDA e : e.v)) |->
            SelectSeq(c.obj, LAMBDA e : e.v)[i].k]

\* the value of the class attribute in the start tag of html, as pieces
ClassAttribute(html) ==
  SubSeq(html, 5 + IdLength, IndexOf(html, 1, "\" ") - 1)

---------------------------------------------------------------------------
(* The claims *)

\* C1: after update returns on a mounted node, every listener registered on
\* the node before the call, by init or by an outside caller, is bound to
\* the node's current live counterpart.
C1_ListenersReboundByUpdate ==
  [][ (last'.op = "update" /\ last'.outcome = "ok") =>
        \A k \in 1..Len(heap[last'.node].registrations) :
          Bound(dom', querySelector(dom', heap'[last'.node].id),
                heap[last'.node].registrations[k]) ]_vars

\* C2: after renderTo of a root returns, every pending registration of every
\* Comp of the subtree below the root is attached to that Comp's own live
\* counterpart.
C2_MountBindsSubtree ==
  (last.op = "renderTo" /\ last.outcome = "ok") =>
    \A m \in Subtree(heap, last.node) :
      IsComp(heap[m]) =>
        \A k \in 1..Len(heap[m].registrations) :
          Bound(dom, querySelector(dom, heap[m].id), heap[m].registrations[k])

\* C3: after update returns on a mounted node, exactly one live element
\* carries the node's identity marker: the freshly serialised one, standing
\* where the old one stood, the old one removed.
C3_OneCounterpartAfterUpdate ==
  [][ (last'.op = "update" /\ last'.outcome = "ok") =>
        LET n   == last'.node
            old == querySelector(dom, heap[n].id)
        IN  /\ Cardinality(LiveWith(dom', heap'[n].id)) = 1
            /\ querySelector(dom', heap'[n].id) = old
            /\ ElementAt(dom', old) = Parse(_toHtml(heap', n))
            /\ Len(dom') - Len(Parse(_toHtml(heap', n)))
                 = Len(dom) - Len(ElementAt(dom, old)) ]_vars

\* C4: the identity of a node is the one its constructor assigned, whatever
\* updates and re-runs of init followed, and the markup of an updated node
\* and its live counterpart carry that identity.
C4_IdentityStable ==
  \A n \in Comps(heap) :
    /\ heap[n].id = ConstructionId(n)
    /\ (last.op = "update" /\ last.outcome = "ok" /\ last.node = n) =>
         /\ SubSeq(_toHtml(heap, n), 4, 3 + IdLength) = ConstructionId(n)
         /\ LiveWith(dom, ConstructionId(n)) # {}

\* a node was updated, the update returned and its content changed
C4_Witness ==
  /\ last.op = "update"
  /\ last.outcome = "ok"
  /\ heap[last.node].content = "b"
  /\ LiveWith(dom, ConstructionId(last.node)) # {}

\* C5: after update, the tag, attributes, classes, content, children and
\* render mode of the node are those of a node freshly constructed with the
\* merged options.
C5_UpdateRecomputesShape ==
  (last.op = "update" /\ last.outcome = "ok") =>
    Shape(heap, last.node) = FreshShape(last.node)

\* C6: the children of a For are the mapper's results for the latest source
\* sequence, one per item and in order, and with an empty sequence the node
\* serialises with nothing between its start tag and its end tag.
C6_ListChildrenMatchData ==
  \A n \in Comps(heap) :
    heap[n].cls = "For" =>
      LET o    == heap[n]
          html == _toHtml(heap, n)
      IN  /\ Len(o.children) = Len(o.options.data)
          /\ \A i \in 1..Len(o.children) :
               IF o.options.mapper = "span"
               THEN /\ heap[o.children[i]].cls = "SystemComp"
                    /\ heap[o.children[i]].tagName = "span"
                    /\ heap[o.children[i]].content = o.options.data[i]
               ELSE /\ heap[o.children[i]].cls = "Literal"
                    /\ heap[o.children[i]].literal = <<"<", "br", ">">>
          /\ \A i, j \in 1..Len(o.children) :
               i # j => o.children[i] # o.children[j]
          /\ o.options.data = <<>> =>
               SubSeq(html, Len(html) - 3, Len(html)) = <<">", "</", "div", ">">>

\* a mounted For was updated with a source sequence, after an earlier
\* sequence had given it children that it no longer holds
C6_Witness ==
  /\ last.op = "update"
  /\ last.outcome = "ok"
  /\ heap[last.node].cls = "For"
  /\ \E m \in (last.node + 1)..Len(heap) : m \notin Range(heap[last.node].children)

\* C7: no node holds literal text content together with a non-empty
\* children sequence.
C7_ContentXorChildren ==
  \A n \in Comps(heap) :
    ~(heap[n].content # Undefined /\ heap[n].children # <<>>)

\* C8: when a node is serialised, every object among the children of a node
\* of its subtree has that node as its parent.
C8_ChildrenKnowParent ==
  (last.op \in {"renderTo", "update"} /\ last.outcome = "ok") =>
    \A p \in Subtree(heap, last.node) :
      \A i \in 1..Len(heap[p].children) :
        heap[heap[p].children[i]].parent = p

\* C9: no two elements of the live tree carry the same identity marker.
C9_IdentitiesUnique ==
  \A i, j \in 1..Len(dom) :
    (i # j /\ dom[i].t = "open" /\ dom[j].t = "open" /\ dom[i].compId # <<>>)
      => dom[i].compId # dom[j].compId

\* C10: update on a node whose identity no live element carries ends with
\* an error and leaves the live tree as it was.
C10_UpdateWithoutCounterpartAborts ==
  [][ (last'.op = "update" /\ LiveWith(dom, heap[last'.node].id) = {}) =>
        (last'.outcome # "ok" /\ dom' = dom) ]_vars

\* an update was refused for want of a live counterpart while a live tree
\* stands: the node was never mounted, or an ancestor's update removed it
C10_Witness ==
  /\ last.op = "update"
  /\ last.outcome = "TypeError"
  /\ dom # <<>>
  /\ LiveWith(dom, heap[last.node].id) = {}

\* C11: a Rating has exactly five children with encoded positions 1..5 in
\* order, position i filled iff i <= rating, in the objects and in the
\* markup; after a click on position k this holds with rating k, in the live
\* tree too, and the identity marker of the Rating is the one it was
\* constructed with.
C11_RatingStarsFollowRating ==
  \A n \in Comps(heap) :
    heap[n].cls = "Rating" =>
      /\ Len(heap[n].children) = RatingStars
      /\ \A i \in 1..RatingStars :
           /\ heap[heap[n].children[i]].tagName = "span"
           /\ heap[heap[n].children[i]].attributes = <<AttrNum("data-value", i)>>
           /\ heap[heap[n].children[i]].content
                = IF i <= heap[n].options.rating THEN symbol1 ELSE symbol0
      /\ LiveStars(Parse(_toHtml(heap, n))) = StarsFor(heap[n].options.rating)
      /\ (last.op = "click" /\ last.node = n /\ last.outcome = "ok") =>
           /\ heap[n].options.rating = last.arg
           /\ heap[n].id = ConstructionId(n)
           /\ querySelector(dom, ConstructionId(n)) # 0
           /\ LiveStars(ElementAt(dom, querySelector(dom, ConstructionId(n))))
                = StarsFor(last.arg)

\* a Rating constructed with rating 2 was mounted and its fourth star clicked
C11_Witness ==
  /\ last.op = "click"
  /\ last.outcome = "ok"
  /\ last.arg = 4
  /\ Len(heap) = 1 + 2 * RatingStars
  /\ heap[2].content = symbol1 /\ heap[3].content = symbol1 /\ heap[4].content = symbol0
  /\ LiveStars(dom) = StarsFor(4)

\* C12: update merges the partial options into the node's options: every
\* key of the partial options maps to its new value, every other key of the
\* options keeps its value, and no other key appears.
C12_UpdateMergesOptions ==
  [][ last'.op = "update" =>
        /\ DOMAIN heap'[last'.node].options
             = DOMAIN heap[last'.node].options \cup DOMAIN last'.arg
        /\ \A k \in DOMAIN last'.arg :
             heap'[last'.node].options[k] = last'.arg[k]
        /\ \A k \in DOMAIN heap[last'.node].options \ DOMAIN last'.arg :
             heap'[last'.node].options[k] = heap[last'.node].options[k] ]_vars

\* an update added the key title to options that an earlier update had
\* given another tag, which they kept
C12_Witness ==
  /\ last.op = "update"
  /\ DOMAIN last.arg = {"title"}
  /\ heap[last.node].options.title = "t"
  /\ heap[last.node].options.tagName = "p"
  /\ heap[last.node].options.children = <<StrArg("a")>>

\* C13: in normal render mode the inner markup of a serialised node is its
\* content whenever content is set, the empty string included, whatever
\* children it holds, and the concatenation of its children's markup only
\* when content is unset.
C13_ContentTakesPrecedence ==
  (last.op = "_toHtml" /\ heap[last.node].renderMode \in {normal, UndefinedMode}) =>
    NonEmpty(InnerMarkup(last.arg))
      = IF heap[last.node].content # Undefined
        THEN NonEmpty(<<heap[last.node].content>>)
        ELSE NonEmpty(ChildrenMarkup(heap, last.node))

\* C14: a node in self-closing render mode serialises to one
\* self-terminating tag carrying the identity marker, the class list and the
\* attributes, with no inner content and no closing tag, whatever its
\* content and children hold.
C14_SelfClosingEmitsOneTag ==
  (last.op = "_toHtml" /\ heap[last.node].renderMode = selfClosing) =>
    /\ SubSeq(last.arg, 1, 3) = <<"<", heap[last.node].tagName, " comp-id=\"">>
    /\ SubSeq(last.arg, 4, 3 + IdLength) = heap[last.node].id
    /\ SubSeq(last.arg, 4 + IdLength, Len(last.arg) - 1)
         = <<"\" class=\"">> \o Join(heap[last.node].classNames, " ")
             \o <<"\" ">> \o _attr(heap[last.node].attributes)
    /\ last.arg[Len(last.arg)] = " />"
    /\ \A i \in 1..Len(last.arg) :
         /\ i > 1 => last.arg[i] # "<"
         /\ last.arg[i] \notin {"</", ">"}
         /\ TruthyString(heap[last.node].content) => last.arg[i] # heap[last.node].content

\* a self-closing node that holds the content 'a' and a child was serialised
C14_Witness ==
  /\ last.op = "_toHtml"
  /\ heap[last.node].renderMode = selfClosing
  /\ heap[last.node].content = "a"
  /\ heap[last.node].children # <<>>

\* C15: the start tag carries, after the identity marker and the class
\* attribute, one entry per attribute key in insertion order: none when the
\* value is undefined, the bare key when it is null, key="value" otherwise,
\* the entries joined by single spaces.
C15_AttributesInInsertionOrder ==
  (last.op = "_toHtml" /\ heap[last.node].renderMode # startTag) =>
    /\ SubSeq(last.arg, 3, 3) = <<" comp-id=\"">>
    /\ last.arg[4 + IdLength] = "\" class=\""
    /\ TagAttributes(last.arg) = EmittedAttributes(heap[last.node].attributes)

\* C16: whatever the shape of the class-name argument, the class list of
\* the node is the ordered list of enabled names the argument denotes (for a
\* mapping: the keys mapped to true, in insertion order), and the class
\* attribute is that list joined by spaces; so arguments of different shapes
\* that denote the same list give the same class list and attribute.
C16_ClassNamesShapeIndependent ==
  \A n \in Comps(heap) :
    /\ heap[n].classNames = Denoted(heap[n].options.classNames)
    /\ (last.op = "_toHtml" /\ last.node = n) =>
         NonEmpty(ClassAttribute(last.arg))
           = Join(Denoted(heap[n].options.classNames), " ")

\* C17: after a mount or a click-triggered update of a Rating has returned,
\* the Rating holds exactly one pending registration, a click one, its live
\* counterpart carries exactly that one binding, and no other live element
\* carries any binding.
C17_OneClickBinding ==
  (last.op \in {"renderTo", "click"} /\ last.outcome = "ok"
     /\ heap[last.node].cls = "Rating") =>
    /\ Len(heap[last.node].registrations) = 1
    /\ heap[last.node].registrations[1].type = "click"
    /\ querySelector(dom, heap[last.node].id) # 0
    /\ dom[querySelector(dom, heap[last.node].id)].listeners
         = heap[last.node].registrations
    /\ \A i \in 1..Len(dom) :
         i # querySelector(dom, heap[last.node].id) => dom[i].listeners = <<>>

\* a mounted Rating has been updated by two clicks
C17_Witness ==
  /\ last.op = "click"
  /\ last.outcome = "ok"
  /\ Len(heap) = 1 + 3 * RatingStars
  /\ Len(dom[querySelector(dom, heap[last.node].id)].listeners) = 1

\* C18: when update on a mounted node returns, the node's live counterpart
\* carries the node's own registrations and every live element inside it
\* carries no listener, also where the object of such an element holds
\* pending registrations that were bound when update was called.
C18_UpdateBindsOnlyOwnRegistrations ==
  (last.op = "update" /\ last.outcome = "ok") =>
    LET e == querySelector(dom, heap[last.node].id)
    IN  /\ e # 0
        /\ dom[e].listeners = heap[last.node].registrations
        /\ \A i \in (e + 1)..MatchClose(dom, e) : dom[i].listeners = <<>>
        /\ \A c \in last.arg : heap[c].registrations # <<>>

\* an update of a container has returned, the Rating below it having been
\* bound on its live element when update was called
C18_Witness ==
  /\ last.op = "update" /\ last.outcome = "ok"
  /\ heap[last.node].cls = "SystemComp"
  /\ \E c \in last.arg : heap[c].cls = "Rating" /\ heap[c].parent = last.node

\* C19: when update ends with the TypeError of a node without live
\* counterpart, the document is as it was, while the node's options hold the
\* partial options merged in and its tag, attributes, classes, text, children
\* and registrations are the ones init computes from the merged options:
\* the registrations of outside callers are gone.
C19_FailedUpdateKeepsMergeAndInit ==
  [][(last'.op = "update" /\ last'.outcome = "TypeError") =>
       LET n == last'.node
           o == heap'[n].options
       IN  /\ dom' = dom
           /\ \A k \in DOMAIN last'.arg : o[k] = last'.arg[k]
           /\ \A k \in DOMAIN heap[n].options \ DOMAIN last'.arg : o[k] = heap[n].options[k]
           /\ heap'[n].tagName = o.tagName
           /\ heap'[n].attributes = o.attributes
           /\ heap'[n].classNames = o.classNames.arr
           /\ heap'[n].content = o.children[1].s
           /\ heap'[n].children = <<>>
           /\ heap'[n].registrations = <<>>
           /\ heap'[n].id = heap[n].id]_vars

\* an update with a new tag has failed on a node that is not in the
\* document: the node has the new tag and no registrations
C19_Witness ==
  /\ last.op = "update" /\ last.outcome = "TypeError"
  /\ "tagName" \in DOMAIN last.arg
  /\ heap[last.node].tagName = "p"
  /\ heap[last.node].registrations = <<>>
  /\ querySelector(dom, heap[last.node].id) = 0

===========================================================================
